---- MODULE Spec2Model ----
(***************************************************************************)
(* SentinelID identity manager (src/app.js): the alias and session state,  *)
(* its localStorage snapshot, the rendered controls the handlers read, and *)
(* the credential generators.                                              *)
(*                                                                         *)
(* Strings are sequences of one-character strings, so that trim, slice and *)
(* concatenation are computed, not assumed.  A Uint32 is a pair <<hi, lo>> *)
(* of 16-bit limbs (0xffffffff does not fit a 32-bit model integer).       *)
(***************************************************************************)
EXTENDS Integers, Sequences, FiniteSets, TLC

----------------------------------------------------------------------------
(* Bounds of the model                                                     *)

MaxAliases == 1

MaxSessions == 2

MaxPwLen == 4

MaxFailures == 1

\* Breach checks started in one page load.
MaxChecks == 2

----------------------------------------------------------------------------
(* Uint32 random words and the quotient word / 0xffffffff                  *)

\* One 16-bit limb of a Uint32Array element.
W == 65536

\* 0xffffffff, the divisor of the random word and its largest value.
UMax == <<W - 1, W - 1>>

UZero == <<0, 0>>

\* 0x55555555 = 0xffffffff / 3: the quotient is exactly 1/3.
UThird == <<21845, 21845>>

\* 0x12345678: a word whose quotient has no short expansion.
UMid == <<4660, 22136>>

\* <<q, rem>> with u * m = q * 0xffffffff + rem and rem < 0xffffffff, for
\* a word u and a multiplier m < W: the integer part and the remaining
\* fraction (as a numerator over 0xffffffff) of (u / 0xffffffff) * m.
MulDiv(u, m) ==
  LET plo == (u[2] * m) % W
      p1  == u[1] * m + ((u[2] * m) \div W)
      q   == p1 \div W
      h   == p1 % W
      s   == plo + q
      l2  == s % W
      h2  == h + (s \div W)
  IN  IF h2 = W THEN <<q + 1, <<0, l2 + 1>> >>
      ELSE IF h2 = W - 1 /\ l2 = W - 1 THEN <<q + 1, UZero>>
      ELSE <<q, <<h2, l2>> >>

----------------------------------------------------------------------------
(* Strings                                                                 *)

Base36 ==
  << "0","1","2","3","4","5","6","7","8","9",
     "a","b","c","d","e","f","g","h","i","j","k","l","m",
     "n","o","p","q","r","s","t","u","v","w","x","y","z" >>

\* String.prototype.slice(from, to) for 0 <= from <= to, 0-based, end
\* exclusive, clipped to the string.
Slice(s, from, to) ==
  LET hi == IF to < Len(s) THEN to ELSE Len(s)
  IN  IF from >= hi THEN <<>> ELSE SubSeq(s, from + 1, hi)

IsSpace(c) == c = " "

RECURSIVE TrimStart(_)
TrimStart(s) ==
  IF s # <<>> /\ IsSpace(Head(s)) THEN TrimStart(Tail(s)) ELSE s

RECURSIVE TrimEnd(_)
TrimEnd(s) ==
  IF s # <<>> /\ IsSpace(s[Len(s)]) THEN TrimEnd(SubSeq(s, 1, Len(s) - 1)) ELSE s

\* A handler that reads the field without trimming it.
TrimNothing(s) == s

\* String.prototype.trim
Trim(s) == TrimEnd(TrimStart(s))

\* The fraction digits of (rem / 0xffffffff) in base 36, at most n of them,
\* ending where the expansion ends.  The digits are those of the exact
\* quotient: 0, 1/3, 2/3 and 1 are the quotients with fewer than 8 digits.
RECURSIVE FracDigits(_, _)
FracDigits(rem, n) ==
  IF n = 0 \/ rem = UZero THEN <<>>
  ELSE LET qr == MulDiv(rem, 36)
       IN  <<Base36[qr[1] + 1]>> \o FracDigits(qr[2], n - 1)

\* (u / 0xffffffff).toString(36), to n fraction digits: "1" for the largest
\* word, "0" for the zero word, "0." and the fraction digits otherwise.
ToString36(u, n) ==
  IF u = UMax THEN <<"1">>
  ELSE IF u = UZero THEN <<"0">>
  ELSE <<"0", ".">> \o FracDigits(u, n)

\* uid(length) on the random word u of the crypto.getRandomValues branch:
\* the string after "0." cut to length.
uid(length, u) == Slice(ToString36(u, length), 2, 2 + length)

----------------------------------------------------------------------------
(* Password generation                                                     *)

lowercase ==
  << "a","b","c","d","e","f","g","h","i","j","k","l","m",
     "n","o","p","q","r","s","t","u","v","w","x","y","z" >>

uppercase ==
  << "A","B","C","D","E","F","G","H","I","J","K","L","M",
     "N","O","P","Q","R","S","T","U","V","W","X","Y","Z" >>

numbers == << "0","1","2","3","4","5","6","7","8","9" >>

symbols ==
  << "!","@","#","$","%","^","&","*","(",")","-","_","=","+",
     "[","]","{","}","<",">","?","~" >>

\* Object.values(charset).join('')
chars == lowercase \o uppercase \o numbers \o symbols

\* What "password += x" appends when x is undefined.
Undefined == << "u","n","d","e","f","i","n","e","d" >>

\* chars[Math.floor(getRandomValue() * chars.length)] as appended text.
PickChar(u) ==
  LET k == MulDiv(u, Len(chars))[1]
  IN  IF k < Len(chars) THEN <<chars[k + 1]>> ELSE Undefined

\* The while loop of generatePassword, drawing stream[i] at its i-th turn.
RECURSIVE GenLoop(_, _, _, _)
GenLoop(password, length, stream, i) ==
  IF Len(password) < length
  THEN GenLoop(password \o PickChar(stream[i]), length, stream, i + 1)
  ELSE password

generatePassword(length, stream) == GenLoop(<<>>, length, stream, 1)

----------------------------------------------------------------------------
(* Fixed strings of the program                                            *)

EmptyStr == <<>>

\* 'user', the fallback alias name.
DefaultName == << "u","s","e","r" >>

\* 'example.com', the fallback alias domain.
DefaultDomain == << "e","x","a","m","p","l","e",".","c","o","m" >>

\* '(ephemeral)', the aliasLocal of a session bound to no alias.
Ephemeral == << "(","e","p","h","e","m","e","r","a","l",")" >>

\* The length makeAlias asks of generatePassword, and its default.
PwLength == 16

\* The length makeAlias and the session handler ask of uid.
IdLength == 8

\* a || b on strings: the empty string is falsy.
OrElse(a, b) == IF a # EmptyStr THEN a ELSE b

----------------------------------------------------------------------------
(* Inputs the environment supplies                                         *)

\* What the user may have typed in the alias name / domain fields.
NameInputs == { <<>>, <<" ">>, <<" ","s"," ">> }

DomainInputs == { <<>>, <<" "," ">>, <<"d",".","t"," ">> }

\* Values of the alias group control.
Groups == { "shopping" }

\* What the user may have typed in the session site field.
SiteInputs == { <<>>, <<" ">>, <<" ","x",".","t"," ">> }

\* Random words crypto.getRandomValues may hand to uid.
IdWords == { UZero, UThird, UMid, UMax }

\* Random words it may hand to generatePassword.
PwWords == { UZero, UMid, UMax }

\* Values Date.now() may return.
Times == { 1, 2 }

\* Sequences of draws for one 16-character password: every draw the same
\* ordinary word, or the last of them the largest word.
AliasStreams ==
  { [i \in 1..PwLength |-> UMid],
    [i \in 1..PwLength |-> IF i = PwLength THEN UMax ELSE UMid] }

\* All sequences of n draws over PwWords.
Streams(n) == [1..n -> PwWords]

\* The inputs of the alias form and of the generator in the specification
\* of the whole page, which exercises the session handlers; the alias form
\* and the generator have their full inputs in SpecAlias and SpecGen.
PageNameInputs == { <<" ","s"," ">> }

PageDomainInputs == { <<>> }

PageStreams == { [i \in 1..PwLength |-> UMid] }

PageTimes == { 1 }

\* Two words with different ids ('' and '2k5rcyaf').
PageIdWords == { UZero, UMid }

\* The site typed and the random word of uid while breach checks are under
\* way.
LeakIdWords == { UMid }

LeakSiteInputs == { <<" ","x",".","t"," ">> }

\* 'breach', the word the demo check looks for.
BreachWord == << "b","r","e","a","c","h" >>

\* Texts of realEmail when Check is clicked.
EmailInputs == { <<>>, <<" ">>, <<" ","m"," ">>, BreachWord }

----------------------------------------------------------------------------
(* State                                                                   *)

VARIABLES
  aliases,        \* state.aliases
  sessions,       \* state.sessions
  storage,        \* localStorage item 'sentinelid.demo' (<<>>: no item)
  aliasOptions,   \* option values of #session-alias, as last rendered
  sessionButtons, \* data-id of the rows of #session-list, as last rendered
  genCall,        \* the generatePassword call that filled #generated-pw (history)
  genOut,         \* value of #generated-pw
  failures,       \* how many times setItem has thrown since the page loaded (history)
  lastOp,         \* what the last handler run did (history)
  page,           \* how the script's top-level run ended: "running" or the error thrown
  leakResult,     \* leakResult.textContent
  timers,         \* pending setTimeout callbacks of the breach check, oldest first:
                  \* the email each closure holds
  checked         \* emails of the checks started since the page loaded (history)

vars ==
  << aliases, sessions, storage, aliasOptions, sessionButtons,
     genCall, genOut, failures, lastOp, page, leakResult, timers, checked >>

\* What the alias, session and generator handlers never touch.
leak == << page, leakResult, timers, checked >>

----------------------------------------------------------------------------
(* JSON snapshot: an object is the sequence of its <<key, value>> members  *)
(* in property order, an array the sequence of its elements.               *)

AliasKeys == << "id", "name", "local", "domain", "group", "created", "password" >>

SessionKeys == << "id", "site", "aliasId", "aliasLocal", "created" >>

\* A stringify that leaves out the last property of the record.
StringifyWithoutLast(rec, keys) ==
  [i \in 1..(Len(keys) - 1) |-> <<keys[i], rec[keys[i]]>>]

\* JSON.stringify of one record whose properties were set in order keys.
StringifyObject(rec, keys) == [i \in 1..Len(keys) |-> <<keys[i], rec[keys[i]]>>]

\* JSON.stringify(state)
Stringify(as, ss) ==
  << <<"aliases",  [i \in 1..Len(as) |-> StringifyObject(as[i], AliasKeys)]>>,
     <<"sessions", [i \in 1..Len(ss) |-> StringifyObject(ss[i], SessionKeys)]>> >>

\* JSON.parse of one object text: the last member of each key wins.
ParseObject(members) ==
  [k \in {members[i][1] : i \in 1..Len(members)} |->
     LET last == CHOOSE i \in 1..Len(members) :
                   /\ members[i][1] = k
                   /\ \A j \in (i + 1)..Len(members) : members[j][1] # k
     IN  members[last][2]]

\* JSON.parse(text) of a snapshot
Parse(text) ==
  LET top == ParseObject(text)
  IN  [aliases  |-> [i \in 1..Len(top.aliases)  |-> ParseObject(top.aliases[i])],
       sessions |-> [i \in 1..Len(top.sessions) |-> ParseObject(top.sessions[i])]]

defaultState == [aliases |-> <<>>, sessions |-> <<>>]

\* JSON.parse(localStorage.getItem(STORAGE_KEY) || 'null') || defaultState
LoadState(item) == IF item = <<>> THEN defaultState ELSE Parse(item)

\* JSON.parse accepts the text: every member has its value.  A text cut
\* short ends in a member that is a key alone.
Parseable(item) == \A i \in 1..Len(item) : Len(item[i]) = 2

\* The parsed object has property key.
Has(item, key) == \E i \in 1..Len(item) : item[i][1] = key

\* How the top-level run of the script ends on a stored item: JSON.parse
\* throws a SyntaxError in the declaration of state; state.aliases.forEach
\* (renderAliases) or state.sessions.forEach (renderSessions) throws a
\* TypeError inside init() when the parsed object lacks the property.
PageAfter(item) ==
  IF item = <<>> THEN "running"
  ELSE IF ~Parseable(item) THEN "SyntaxError"
  ELSE IF ~Has(item, "aliases") \/ ~Has(item, "sessions") THEN "TypeError"
  ELSE "running"

----------------------------------------------------------------------------
(* Pieces of the handlers                                                  *)

\* makeAlias(name, domain, group), with the random word of its uid call,
\* the draws of its generatePassword call and the value of Date.now().
makeAlias(name, domain, group, u, stream, t) ==
  [ id       |-> uid(IdLength, u),
    name     |-> name,
    local    |-> name \o <<"@">> \o domain,
    domain   |-> domain,
    group    |-> group,
    created  |-> t,
    password |-> generatePassword(PwLength, stream) ]

\* Array.prototype.push: the new element goes last.
Push(seq, x) == seq \o <<x>>

\* Array.prototype.unshift
Unshift(seq, x) == <<x>> \o seq

\* A lookup that compares the alias address, not its id, with aliasId.
FindAliasByLocal(as, aliasId) ==
  IF \E i \in 1..Len(as) : as[i].local = aliasId
  THEN as[CHOOSE i \in 1..Len(as) : as[i].local = aliasId]
  ELSE [local |-> Ephemeral]

\* state.aliases.find(a => a.id === aliasId) || { local: '(ephemeral)' }
FindAlias(as, aliasId) ==
  IF \E i \in 1..Len(as) : as[i].id = aliasId
  THEN as[CHOOSE i \in 1..Len(as) :
            /\ as[i].id = aliasId
            /\ \A j \in 1..(i - 1) : as[j].id # aliasId]
  ELSE [local |-> Ephemeral]

\* The session object the create handler builds.
makeSession(as, site, aliasId, u, t) ==
  [ id         |-> uid(IdLength, u),
    site       |-> site,
    aliasId    |-> aliasId,
    aliasLocal |-> OrElse(FindAlias(as, aliasId).local, Ephemeral),
    created    |-> t ]

\* A soft delete: the matching rows stay listed with their site blanked.
FilterTombstones(ss, id) ==
  [i \in 1..Len(ss) |-> IF ss[i].id = id THEN [ss[i] EXCEPT !.site = EmptyStr]
                         ELSE ss[i]]

\* A filter with the comparison turned round: it keeps the matching rows.
FilterKeepsMatching(ss, id) == SelectSeq(ss, LAMBDA s : s.id = id)

\* state.sessions.filter(s => s.id !== id)
FilterSessions(ss, id) == SelectSeq(ss, LAMBDA s : s.id # id)

\* A render that gives each option the alias address as its value.
renderAliasLocals(as) == <<EmptyStr>> \o [i \in 1..Len(as) |-> as[i].local]

\* Option values renderAliases leaves in #session-alias: '(none)' first.
renderAliases(as) == <<EmptyStr>> \o [i \in 1..Len(as) |-> as[i].id]

\* data-id values renderSessions leaves in #session-list.
renderSessions(ss) == [i \in 1..Len(ss) |-> ss[i].id]

\* Values sessionAliasSelect.value can take.
SelectValues == {aliasOptions[i] : i \in 1..Len(aliasOptions)}

\* Ids of the Destroy / Open buttons on the page.
ButtonIds == {sessionButtons[i] : i \in 1..Len(sessionButtons)}

\* String.prototype.includes
Includes(s, word) ==
  \E k \in 0..(Len(s) - Len(word)) :
    \A i \in 1..Len(word) : s[k + i] = word[i]

\* The texts the breach check writes to leakResult (the leading pictograph
\* of the two results is written as a word).
Checking == << "Checking..." >>

FoundText(email) == << "[warn] " >> \o email \o << " appears in a public breach." >>

ClearText(email) == << "[ok] No public breach found for " >> \o email \o << "." >>

\* A timer list that runs the newest callback first.
ScheduleFirst(pending, email) == <<email>> \o pending

\* setTimeout(callback, 800): every breach timer has the same delay, so
\* the callbacks run in the order they were scheduled.
Schedule(pending, email) == Append(pending, email)

\* The history record of a handler run: which handler, how it ended ("ok",
\* a flashed validation message, or the exception of setItem), how often it
\* called save, the toast it flashed, the inputs it read and how many
\* sessions it took off the list.
Op(kind, outcome, saves, flash, nameIn, domainIn, siteIn, id, removed) ==
  [ kind     |-> kind,
    outcome  |-> outcome,
    saves    |-> saves,
    flash    |-> flash,
    nameIn   |-> nameIn,
    domainIn |-> domainIn,
    siteIn   |-> siteIn,
    id       |-> id,
    removed  |-> removed ]

\* A setItem that waits for the breach checks: it cannot run while a timer
\* is pending.
CanStoreWhenIdle(stored) == timers = <<>> /\ (stored \/ failures < MaxFailures)

\* localStorage.setItem either stores the text or throws (quota exceeded);
\* it can throw while fewer than MaxFailures calls of this page load have.
CanStore(stored) == stored \/ failures < MaxFailures

\* A save that runs before the handler's change: it stores the old state.
saveStale(as, ss, stored) == IF stored THEN Stringify(aliases, sessions) ELSE storage

\* save(): the item after the call.
save(as, ss, stored) == IF stored THEN Stringify(as, ss) ELSE storage

\* How a handler that called save ended.
Ended(stored) == IF stored THEN "ok" ELSE "PersistenceError"

Failed(stored) == IF stored THEN failures ELSE failures + 1

----------------------------------------------------------------------------
(* Start of the page: the state declaration and init()                     *)

Boot(item, n, stream) ==
  LET st == LoadState(item)
  IN  /\ aliases = st.aliases
      /\ sessions = st.sessions
      /\ storage = item
      /\ aliasOptions = renderAliases(st.aliases)
      /\ sessionButtons = renderSessions(st.sessions)
      /\ genCall = [length |-> n, draws |-> stream]
      /\ genOut = generatePassword(n, stream)
      /\ failures = 0
      /\ lastOp = Op("load", "ok", 0, "", EmptyStr, EmptyStr, EmptyStr, EmptyStr, 0)
      /\ page = "running"
      /\ leakResult = EmptyStr
      /\ timers = <<>>
      /\ checked = <<>>

\* The page after a start that threw.  JSON.parse threw: nothing was
\* rendered.  init() threw: renderAliases had reset the select to '(none)'
\* and had added the options of state.aliases when there is one;
\* generatePassword was not reached.  An undefined state, state.aliases or
\* state.sessions is held as the empty sequence; page tells it apart.
Crash(item) ==
  LET as == IF Parseable(item) /\ Has(item, "aliases")
            THEN [i \in 1..Len(ParseObject(item).aliases) |->
                    ParseObject(ParseObject(item).aliases[i])]
            ELSE <<>>
  IN  /\ page = PageAfter(item)
      /\ aliases = as
      /\ sessions = <<>>
      /\ storage = item
      /\ aliasOptions = IF Parseable(item) THEN renderAliases(as) ELSE <<>>
      /\ sessionButtons = <<>>
      /\ genCall = [length |-> 0, draws |-> <<>>]
      /\ genOut = EmptyStr
      /\ failures = 0
      /\ lastOp = Op("load", PageAfter(item), 0, "",
                     EmptyStr, EmptyStr, EmptyStr, EmptyStr, 0)
      /\ leakResult = EmptyStr
      /\ timers = <<>>
      /\ checked = <<>>

\* Items a visit can find under 'sentinelid.demo': none, the snapshot of
\* the empty state, a snapshot cut short ('{"aliases":[],"sessions"'), an
\* object without sessions ('{"aliases":[]}'), an object of another
\* program ('{"theme":"d"}').
StoredItems ==
  { <<>>,
    Stringify(<<>>, <<>>),
    << <<"aliases", <<>> >>, <<"sessions">> >>,
    << <<"aliases", <<>> >> >>,
    << <<"theme", <<"d">> >> >> }

\* A visit that finds any of these items.
InitLoad ==
  \E item \in StoredItems : \E stream \in PageStreams :
    IF PageAfter(item) = "running" THEN Boot(item, PwLength, stream)
    ELSE Crash(item)

\* First visit: nothing is stored; the length control stands at 16.
Init == \E stream \in PageStreams : Boot(<<>>, PwLength, stream)

\* First visit, for the generator alone: any length of the control.
InitGen == \E n \in 1..MaxPwLen : \E stream \in Streams(n) : Boot(<<>>, n, stream)

----------------------------------------------------------------------------
(* Handlers                                                                *)

\* aliasForm 'submit'
CreateAlias(nameIn, domainIn, group, u, stream, t, stored) ==
  LET alias == makeAlias(OrElse(Trim(nameIn), DefaultName),
                         OrElse(Trim(domainIn), DefaultDomain),
                         group, u, stream, t)
      as    == Unshift(aliases, alias)
  IN  /\ Len(aliases) < MaxAliases
      /\ CanStore(stored)
      /\ aliases' = as
      /\ storage' = save(as, sessions, stored)
      /\ failures' = Failed(stored)
      /\ aliasOptions' = IF stored THEN renderAliases(as) ELSE aliasOptions
      /\ lastOp' = Op("createAlias", Ended(stored), 1, "",
                      nameIn, domainIn, EmptyStr, EmptyStr, 0)
      /\ UNCHANGED <<sessions, sessionButtons, genCall, genOut>>
      /\ UNCHANGED leak

\* createSessionBtn 'click'
CreateSession(siteIn, aliasId, u, t, stored) ==
  LET site    == Trim(siteIn)
      session == makeSession(aliases, site, aliasId, u, t)
      ss      == Unshift(sessions, session)
  IN  IF site = EmptyStr
      THEN /\ lastOp' = Op("createSession", "ValidationError", 0,
                           "Enter a site to create a session",
                           EmptyStr, EmptyStr, siteIn, EmptyStr, 0)
           /\ UNCHANGED <<aliases, sessions, storage, aliasOptions,
                          sessionButtons, genCall, genOut, failures>>
           /\ UNCHANGED leak
      ELSE /\ Len(sessions) < MaxSessions
           /\ CanStore(stored)
           /\ sessions' = ss
           /\ storage' = save(aliases, ss, stored)
           /\ failures' = Failed(stored)
           /\ sessionButtons' = IF stored THEN renderSessions(ss) ELSE sessionButtons
           /\ lastOp' = Op("createSession", Ended(stored), 1,
                           IF stored THEN "Session created" ELSE "",
                           EmptyStr, EmptyStr, siteIn, EmptyStr, 0)
           /\ UNCHANGED <<aliases, aliasOptions, genCall, genOut>>
           /\ UNCHANGED leak

\* sessionList 'click' on a Destroy button
DestroySession(id, stored) ==
  LET ss == FilterSessions(sessions, id)
  IN  /\ CanStore(stored)
      /\ sessions' = ss
      /\ storage' = save(aliases, ss, stored)
      /\ failures' = Failed(stored)
      /\ sessionButtons' = IF stored THEN renderSessions(ss) ELSE sessionButtons
      /\ lastOp' = Op("destroySession", Ended(stored), 1,
                      IF stored THEN "Session destroyed" ELSE "",
                      EmptyStr, EmptyStr, EmptyStr, id, Len(sessions) - Len(ss))
      /\ UNCHANGED <<aliases, aliasOptions, genCall, genOut>>
      /\ UNCHANGED leak

\* sessionList 'click' on an Open button
OpenSession(id) ==
  /\ lastOp' = Op("openSession", "ok", 0, "Opening virtual tab (demo)",
                  EmptyStr, EmptyStr, EmptyStr, EmptyStr, 0)
  /\ UNCHANGED <<aliases, sessions, storage, aliasOptions, sessionButtons,
                 genCall, genOut, failures>>
  /\ UNCHANGED leak

\* genBtn 'click' with the length control at n
GenClick(n, stream) ==
  /\ genCall' = [length |-> n, draws |-> stream]
  /\ genOut' = generatePassword(n, stream)
  /\ lastOp' = Op("generate", "ok", 0, "", EmptyStr, EmptyStr, EmptyStr, EmptyStr, 0)
  /\ UNCHANGED <<aliases, sessions, storage, aliasOptions, sessionButtons, failures>>
  /\ UNCHANGED leak

\* The history record of a run of the breach check: the click handler
\* ("checkEmail") or its timer callback ("leakTimer"), how it ended, the
\* toast it flashed and the text of realEmail it read or had captured.
LeakOp(kind, outcome, flash, emailIn) ==
  [ kind    |-> kind,
    outcome |-> outcome,
    saves   |-> 0,
    flash   |-> flash,
    emailIn |-> emailIn ]

\* checkEmailBtn 'click'
CheckEmail(emailIn) ==
  LET email == Trim(emailIn)
  IN  IF email = EmptyStr
      THEN /\ lastOp' = LeakOp("checkEmail", "ValidationError",
                               "Enter an email to check", emailIn)
           /\ UNCHANGED <<aliases, sessions, storage, aliasOptions, sessionButtons,
                          genCall, genOut, failures, leak>>
      ELSE /\ Len(checked) < MaxChecks
           /\ leakResult' = Checking
           /\ timers' = Schedule(timers, email)
           /\ checked' = Append(checked, email)
           /\ lastOp' = LeakOp("checkEmail", "ok", "", emailIn)
           /\ UNCHANGED <<aliases, sessions, storage, aliasOptions, sessionButtons,
                          genCall, genOut, failures, page>>

\* The callback of the oldest pending timer runs; lucky is
\* Math.random() < 0.18.
TimerFire(lucky) ==
  /\ timers # <<>>
  /\ LET email == Head(timers)
         found == Includes(email, BreachWord) \/ lucky
     IN  /\ leakResult' = IF found THEN FoundText(email) ELSE ClearText(email)
         /\ lastOp' = LeakOp("leakTimer", "ok", "", email)
  /\ timers' = Tail(timers)
  /\ UNCHANGED <<aliases, sessions, storage, aliasOptions, sessionButtons,
                 genCall, genOut, failures, page, checked>>

\* The page is loaded again: the script runs from the top.
Reload(stream) ==
  LET st == LoadState(storage)
  IN  /\ aliases' = st.aliases
      /\ sessions' = st.sessions
      /\ aliasOptions' = renderAliases(st.aliases)
      /\ sessionButtons' = renderSessions(st.sessions)
      /\ genCall' = [length |-> PwLength, draws |-> stream]
      /\ genOut' = generatePassword(PwLength, stream)
      /\ failures' = 0
      /\ lastOp' = Op("load", "ok", 0, "", EmptyStr, EmptyStr, EmptyStr, EmptyStr, 0)
      /\ leakResult' = EmptyStr
      /\ timers' = <<>>
      /\ checked' = <<>>
      /\ UNCHANGED <<storage, page>>

----------------------------------------------------------------------------
(* Specifications                                                          *)

\* The whole page.
Next ==
  \/ \E nameIn \in PageNameInputs, domainIn \in PageDomainInputs, group \in Groups,
        u \in PageIdWords, stream \in PageStreams, t \in PageTimes, stored \in BOOLEAN :
       CreateAlias(nameIn, domainIn, group, u, stream, t, stored)
  \/ \E siteIn \in SiteInputs :
       \E aliasId \in SelectValues, u \in PageIdWords, t \in PageTimes,
          stored \in BOOLEAN :
         CreateSession(siteIn, aliasId, u, t, stored)
  \/ \E id \in ButtonIds, stored \in BOOLEAN : DestroySession(id, stored)
  \/ \E id \in ButtonIds : OpenSession(id)
  \/ \E stream \in PageStreams : GenClick(PwLength, stream)
  \/ \E stream \in PageStreams : Reload(stream)

Spec == Init /\ [][Next]_vars

\* The alias form alone, over all its inputs.
NextAlias ==
  \E nameIn \in NameInputs, domainIn \in DomainInputs, group \in Groups,
     u \in IdWords, stream \in AliasStreams, t \in Times, stored \in BOOLEAN :
    CreateAlias(nameIn, domainIn, group, u, stream, t, stored)

SpecAlias == Init /\ [][NextAlias]_vars

\* The password generator alone, over every length and sequence of draws.
NextGen == \E n \in 1..MaxPwLen : \E stream \in Streams(n) : GenClick(n, stream)

SpecGen == InitGen /\ [][NextGen]_vars

\* The breach check interleaved with the handlers that change the state,
\* within one page load and with room in localStorage (a save that throws
\* is the matter of the whole-page specification).  The timer callbacks are
\* browser tasks: a pending one is run in the end.
LeakCreateAlias ==
  \E nameIn \in PageNameInputs, domainIn \in PageDomainInputs, group \in Groups,
     u \in LeakIdWords, stream \in PageStreams, t \in PageTimes :
    CreateAlias(nameIn, domainIn, group, u, stream, t, TRUE)

LeakCreateSession ==
  \E siteIn \in LeakSiteInputs :
    \E aliasId \in SelectValues, u \in LeakIdWords, t \in PageTimes :
      CreateSession(siteIn, aliasId, u, t, TRUE)

LeakDestroySession == \E id \in ButtonIds : DestroySession(id, TRUE)

NextLeak ==
  \/ \E emailIn \in EmailInputs : CheckEmail(emailIn)
  \/ \E lucky \in BOOLEAN : TimerFire(lucky)
  \/ LeakCreateAlias
  \/ LeakCreateSession
  \/ LeakDestroySession

SpecLeak ==
  Init /\ [][NextLeak]_vars /\ WF_vars(\E lucky \in BOOLEAN : TimerFire(lucky))

\* The page started on any stored item.  A page whose start threw is
\* followed no further.
NextLoad == page = "running" /\ Next

SpecLoad == InitLoad /\ [][NextLoad]_vars

----------------------------------------------------------------------------
(* Properties                                                              *)

\* The handlers that change state.aliases or state.sessions.
Mutating == { "createAlias", "createSession", "destroySession" }

\* A string that is empty after trimming: nothing but spaces.
Blank(s) == \A i \in 1..Len(s) : s[i] = " "

\* The in-memory state as a document.
Memory == [aliases |-> aliases, sessions |-> sessions]

\* C1: after every completed alias creation, session creation or session
\* destruction the persisted snapshot, read back, equals the in-memory
\* state (same aliases and sessions in the same order), and the handler
\* called save exactly once.
C1_SnapshotEqualsState ==
  (lastOp.kind \in Mutating /\ lastOp.outcome = "ok") =>
    /\ storage # <<>>
    /\ LoadState(storage) = Memory
    /\ lastOp.saves = 1

\* A session creation completes after an earlier save of this page load
\* threw, with an alias and a session in the state.
C1_Witness ==
  /\ lastOp.kind = "createSession"
  /\ lastOp.outcome = "ok"
  /\ failures > 0
  /\ aliases # <<>>
  /\ sessions # <<>>

\* C2 (as claimed): when save raises during alias creation, session creation
\* or session destruction, the in-memory aliases and sessions are what they
\* were before the operation.
C2_FailedSaveLeavesMemory ==
  [][ lastOp'.outcome = "PersistenceError" =>
        (aliases' = aliases /\ sessions' = sessions) ]_vars

\* The aliasLocal the claim gives session s: the local of an alias of the
\* state whose id is s.aliasId when there is one, the marker otherwise.
Resolved(s) ==
  IF \E i \in 1..Len(aliases) : aliases[i].id = s.aliasId
  THEN \E i \in 1..Len(aliases) :
         aliases[i].id = s.aliasId /\ s.aliasLocal = aliases[i].local
  ELSE s.aliasLocal = Ephemeral

C4_BlankSiteRejected ==
  [][ (lastOp'.kind = "createSession" /\ Blank(lastOp'.siteIn)) =>
        /\ lastOp'.outcome = "ValidationError"
        /\ lastOp'.saves = 0
        /\ UNCHANGED <<aliases, sessions, storage>> ]_vars

\* A site of one space has just been rejected while a session is listed.
C4_Witness ==
  /\ lastOp.kind = "createSession"
  /\ lastOp.siteIn = <<" ">>
  /\ lastOp.outcome = "ValidationError"
  /\ sessions # <<>>

\* The rows of ss whose id is not id, in their order.
RECURSIVE Others(_, _)
Others(ss, id) ==
  IF ss = <<>> THEN <<>>
  ELSE IF Head(ss).id = id THEN Others(Tail(ss), id)
  ELSE <<Head(ss)>> \o Others(Tail(ss), id)

\* C5: destroying a session id that is present leaves no session with that
\* id listed, and every other session listed, unmodified and in the same
\* relative order.
C5_DestroyRemovesExactly ==
  [][ ( /\ lastOp'.kind = "destroySession"
        /\ \E i \in 1..Len(sessions) : sessions[i].id = lastOp'.id ) =>
        /\ \A i \in 1..Len(sessions') : sessions'[i].id # lastOp'.id
        /\ sessions' = Others(sessions, lastOp'.id) ]_vars

\* One of two sessions has just been destroyed; the other is still listed.
C5_Witness ==
  /\ lastOp.kind = "destroySession"
  /\ lastOp.removed = 1
  /\ Len(sessions) = 1

\* C6 (as claimed): destroying a session id that is not in the session
\* sequence returns NotFoundError, not success, and leaves the sequence
\* unchanged.
C6_AbsentIdNotFound ==
  [][ ( /\ lastOp'.kind = "destroySession"
        /\ ~ \E i \in 1..Len(sessions) : sessions[i].id = lastOp'.id ) =>
        /\ lastOp'.outcome = "NotFoundError"
        /\ sessions' = sessions ]_vars

\* C7 (as claimed): no two aliases share an id and no two sessions share an
\* id.
C7_UniqueIds ==
  /\ \A i, j \in 1..Len(aliases) : i # j => aliases[i].id # aliases[j].id
  /\ \A i, j \in 1..Len(sessions) : i # j => sessions[i].id # sessions[j].id

\* The characters of the four declared classes.
CharUniverse == {chars[i] : i \in 1..Len(chars)}

\* C8 (as claimed): generatePassword(n) returns exactly n characters, each
\* of the lowercase, uppercase, digit or symbol class.
C8_PasswordShape ==
  /\ Len(genOut) = genCall.length
  /\ \A i \in 1..Len(genOut) : genOut[i] \in CharUniverse

\* C9 (as claimed): the alias just created has a non-empty name and domain
\* (the typed text without surrounding spaces, or the default when that is
\* empty), local = name "@" domain, a password of 16 characters, and is first
\* in the alias sequence.
C9_AliasShape ==
  lastOp.kind = "createAlias" =>
    /\ aliases # <<>>
    /\ LET a == aliases[1]
       IN  /\ a.name # EmptyStr /\ a.domain # EmptyStr
           /\ Blank(lastOp.nameIn) => a.name = DefaultName
           /\ Blank(lastOp.domainIn) => a.domain = DefaultDomain
           /\ a.name[1] # " " /\ a.name[Len(a.name)] # " "
           /\ a.domain[1] # " " /\ a.domain[Len(a.domain)] # " "
           /\ a.local = a.name \o <<"@">> \o a.domain
           /\ Len(a.password) = 16

\* The stored item is a state document: an object with aliases and sessions.
IsStateDocument(item) ==
  item # <<>> /\ Parseable(item) /\ Has(item, "aliases") /\ Has(item, "sessions")

\* C11 (as claimed): a start that finds no stored item, or one that is
\* unparseable or parses to something that is not a state document, ends
\* with the page running on the default empty state.
C11_CorruptLoadsDefault ==
  (lastOp.kind = "load" /\ ~IsStateDocument(storage)) =>
    /\ page = "running"
    /\ Memory = defaultState

\* C12: saving any reachable state and loading the saved item, as a
\* restart does, gives back the same aliases and sessions, field by field
\* and in the same order.
C12_RoundTrip ==
  /\ LoadState(save(aliases, sessions, TRUE)) = Memory
  /\ (lastOp.kind = "load" /\ storage # <<>>) => storage = Stringify(aliases, sessions)

\* A restart has loaded a snapshot with an alias and two sessions, one of
\* them bound to the alias.
C12_Witness ==
  /\ lastOp.kind = "load"
  /\ Len(aliases) = 1
  /\ Len(sessions) = 2
  /\ \E i \in 1..2 : sessions[i].aliasLocal = aliases[1].local

\* C13: a breach check clicked with an email that is empty after trimming
\* is rejected with a validation error: no check becomes pending, no timer
\* is scheduled and the displayed leak result stays as it was.
C13_BlankEmailRejected ==
  [][ (lastOp'.kind = "checkEmail" /\ Blank(lastOp'.emailIn)) =>
        /\ lastOp'.outcome = "ValidationError"
        /\ lastOp'.flash = "Enter an email to check"
        /\ UNCHANGED <<timers, checked, leakResult>> ]_vars

\* An email of one space has just been rejected while the result of an
\* earlier check is on display and another check is pending.
C13_Witness ==
  /\ lastOp.kind = "checkEmail"
  /\ lastOp.emailIn = <<" ">>
  /\ lastOp.outcome = "ValidationError"
  /\ Len(timers) = 1
  /\ leakResult = ClearText(<<"m">>)

\* No breach check is waiting for its timer, or the handlers that change
\* the state can run now: a Destroy button that is on the page can be
\* clicked, and the one condition the two creation handlers have beside room
\* in the model, that setItem can be called, holds.
NothingWaits ==
  timers # <<>> =>
    /\ ButtonIds # {} => ENABLED LeakDestroySession
    /\ CanStore(TRUE)

\* C14: the click that starts a breach check and the timer callback that
\* completes it leave the aliases, the sessions and the stored snapshot as
\* they were; while a check is pending, alias creation, session creation
\* and session destruction can run, and a run ends normally with the check
\* still pending.
C14_CheckLeavesState ==
  /\ [][ /\ lastOp'.kind \in {"checkEmail", "leakTimer"} =>
              UNCHANGED <<aliases, sessions, storage>>
         /\ (timers # <<>> /\ lastOp'.kind \in Mutating) =>
              (lastOp'.outcome = "ok" /\ UNCHANGED timers) ]_vars
  /\ []NothingWaits

\* A session has just been destroyed while two breach checks are pending.
C14_Witness ==
  /\ lastOp.kind = "destroySession"
  /\ lastOp.removed = 1
  /\ Len(timers) = 2
  /\ aliases # <<>>

\* How many of the started breach checks have completed.
Completed == Len(checked) - Len(timers)

\* leakResult shows a result for email.
Names(email) == leakResult \in { FoundText(email), ClearText(email) }

\* C18: of several breach checks started before earlier ones complete,
\* every one completes in the end, the checks complete in the order they
\* were started, and once none is pending the leak result on display is a
\* result for the email of the check started last.
C18_ChecksCompleteInOrder ==
  /\ \A k \in 1..MaxChecks : (Len(checked) >= k) ~> (Completed >= k)
  /\ [][ lastOp'.kind = "leakTimer" =>
           /\ Completed' = Completed + 1
           /\ lastOp'.emailIn = checked[Completed + 1]
           /\ leakResult' \in { FoundText(lastOp'.emailIn), ClearText(lastOp'.emailIn) } ]_vars
  /\ [](timers = <<>> /\ checked # <<>> => Names(checked[Len(checked)]))

\* The check started first has just completed, with a result for its email,
\* while the second, for another email, is still pending.
C18_Witness ==
  /\ lastOp.kind = "leakTimer"
  /\ Len(checked) = 2
  /\ checked[1] # checked[2]
  /\ timers = << checked[2] >>
  /\ Names(checked[1])

\* C15: a session created with a non-empty aliasId was created while an
\* alias with that id was in the state; and in every state no session has
\* a non-empty aliasId together with the ephemeral marker as aliasLocal.
C15_BoundSessionsHadAlias ==
  /\ [][ ( /\ lastOp'.kind = "createSession"
           /\ lastOp'.outcome # "ValidationError"
           /\ sessions'[1].aliasId # EmptyStr ) =>
           \E i \in 1..Len(aliases) :
             /\ aliases[i].id = sessions'[1].aliasId
             /\ aliases[i].local = sessions'[1].aliasLocal ]_vars
  /\ [](\A i \in 1..Len(sessions) :
          sessions[i].aliasId # EmptyStr => sessions[i].aliasLocal # Ephemeral)

\* An unbound session has just been created in front of a bound one.
C15_Witness ==
  /\ lastOp.kind = "createSession"
  /\ lastOp.outcome = "ok"
  /\ Len(sessions) = 2
  /\ sessions[1].aliasId = EmptyStr
  /\ sessions[1].aliasLocal = Ephemeral
  /\ sessions[2].aliasId # EmptyStr
  /\ sessions[2].aliasLocal # Ephemeral

\* The rows of new are rows of old, in the order they have in old.
KeepsOrder(old, new) ==
  \E f \in [1..Len(new) -> 1..Len(old)] :
    /\ \A i \in 1..Len(new) : new[i] = old[f[i]]
    /\ \A i, j \in 1..Len(new) : i < j => f[i] < f[j]

Records(seq) == {seq[i] : i \in 1..Len(seq)}

\* C17: records are not changed after creation.  Each alias and session
\* listed after a handler has run is, with all its fields, one that was
\* listed before, or the one the handler created (after a restart: one of
\* the stored snapshot); session creation, session destruction and Open
\* leave the alias sequence as it was, and alias creation leaves the
\* session sequence as it was.
C17_RecordsImmutable ==
  [][ /\ lastOp'.kind \in {"createSession", "destroySession", "openSession"} =>
          aliases' = aliases
      /\ lastOp'.kind = "createAlias" => sessions' = sessions
      /\ lastOp'.kind # "load" =>
          /\ \A i \in 1..Len(aliases') :
               \/ aliases'[i] \in Records(aliases)
               \/ lastOp'.kind = "createAlias" /\ i = 1
          /\ \A i \in 1..Len(sessions') :
               \/ sessions'[i] \in Records(sessions)
               \/ lastOp'.kind = "createSession" /\ i = 1
      /\ lastOp'.kind = "load" =>
          /\ Records(aliases') \subseteq Records(LoadState(storage).aliases)
          /\ Records(sessions') \subseteq Records(LoadState(storage).sessions) ]_vars

\* A session has just been destroyed; a session bound to the alias of the
\* state is still listed.
C17_Witness ==
  /\ lastOp.kind = "destroySession"
  /\ lastOp.removed = 1
  /\ Len(sessions) = 1
  /\ aliases # <<>>
  /\ sessions[1].aliasLocal = aliases[1].local

\* C19 (as claimed): every generated id has exactly the requested length,
\* 8 characters for alias and session ids, and is never the empty string,
\* whatever word the randomness source returns.
C19_IdsHaveLength ==
  /\ \A i \in 1..Len(aliases) :
       aliases[i].id # EmptyStr /\ Len(aliases[i].id) = IdLength
  /\ \A i \in 1..Len(sessions) :
       sessions[i].id # EmptyStr /\ Len(sessions[i].id) = IdLength

====
